---- MODULE Spec2Model ----
(***************************************************************************)
(* Model of the background embedding service of kishancall                 *)
(* (class BackgroundEmbeddingService, src/unnamed/part_001 lines 459-1571) *)
(* together with the parts of the document store it talks to.              *)
(*                                                                         *)
(* JavaScript runs one continuation at a time: every action below is the   *)
(* code that runs between two awaits of one async call (start, resume,     *)
(* stop, the batch loop), or a whole synchronous handler (pause,           *)
(* configure).  The fields of the singleton are the record `service`, the  *)
(* async calls in flight are the bag `tasks`.                              *)
(*                                                                         *)
(* The CSV import queue of the same class is the record `csv`, its task    *)
(* objects the sequence `csvTasks`, and the queue loops and the bulk       *)
(* inserts nobody awaits the bag `csvCalls`.                               *)
(*                                                                         *)
(* Of the entries that the run and the CSV import log only this is kept:   *)
(* whether a step called addLog(), and per document the number of entries  *)
(* of level warning or error that name it.  The ring itself (service.logs, *)
(* with its eviction at 1000 entries) is filled by addLog() called on its  *)
(* own, in SpecLogs.                                                       *)
(* Left out, because no statement checked here reads them: the callbacks,  *)
(* currentBatch, currentOperation, lastProcessedId, the processing-time    *)
(* window and errorCount.                                                  *)
(***************************************************************************)
EXTENDS Integers, Sequences, FiniteSets, Bags, TLC

\* ---------------------------------------------------------------- bounds
MaxDocs == 3          \* documents in the store of a job that runs alone
MaxSpecDocs == 2      \* documents in the store while control calls interleave
MaxTasks == 2         \* async calls of the service in flight at once
MaxTime == 1          \* clock ticks
MaxRuns == 2          \* accepted start() calls of jobs that run alone
MaxSpecRuns == 1      \* accepted start() calls while control calls interleave
MaxAttempted == 2     \* cap of the per-document attempt counter
MaxDocLogs == 5       \* cap of the per-document count of warning/error log entries
MaxCsvTasks == 2      \* CSV files added to the queue
MaxQueryCsvTasks == 1  \* CSV files enqueued while the queries are exercised
MaxRows == 2          \* data rows of a CSV file
MaxLogAdds == 3       \* addLog() calls beyond a full ring
MaxPrefillGap == 2    \* entries missing to a full ring at the start
MaxSearchDocs == 3    \* documents in the collection that is searched
MaxTopK == 2          \* topK of a search
MaxCacheGap == 1      \* entries missing to a full cache at the start
MaxCacheSets == 4     \* embeddings stored in the cache
MaxEmbedCalls == 2    \* generateEmbedding() calls waiting for the model at once
MaxTextLen == 2       \* characters of a text

\* ------------------------------------------------------ program constants
DefaultBatchSize == 50
DefaultDelayBetweenBatches == 100
DefaultRetryAttempts == 3
DefaultConcurrentWorkers == 1
StopMaxAttempts == 30
EmbeddingDim == 384
NoTime == -1          \* pauseTime = null
MaxLogEntries == 1000
DefaultLogLimit == 50
MaxFallbackDocuments == 10000
CACHE_SIZE_LIMIT == 100
BackoffUnit == 1000    \* ms

\* values a caller passes to configure() / start(options)
BatchSizeOptions == {1, 2}
RetryAttemptsOptions == {2}
SkipExistingOptions == BOOLEAN

\* options of addCsvToQueue(filePath, fileName, options)
CsvBatchSizeOptions == {1, 2}
ClearExistingOptions == BOOLEAN

\* options.generateEmbeddings of addCsvToQueue(): absent, or as the upload
\* route passes it
NoOption == "absent"
GenerateEmbeddingsOptions == {NoOption, "true", "false"}

\* addLog(level, ...) and getLogs(limit, level); NoLevel is level = null
LogLevels == {"info", "warning", "error"}
NoLevel == ""
LogLimits == {0, 1, 2, DefaultLogLimit}

\* the characters of the texts passed to generateEmbedding()
TextChars == {"a", "B", " "}

\* cosine similarities of a document to the query, in hundredths
Similarities == {0, 50, 90}

\* integer values in and out of the range of each numeric option
BatchSizeValues == {0, 7, 5000}
DelayValues == {-5, 0}
RetryAttemptsValues == {-1, 2, 11}
ConcurrentWorkersValues == {0, 3, 6}

VARIABLES
  service,     \* the fields of the BackgroundEmbeddingService singleton
  tasks,       \* bag of async calls in flight (start, resume/batch loop, stop)
  store,       \* the documents collection: store[i] = length of document i's embedding
  failing,     \* documents on which generateEmbedding / the update throws, and
               \* StoreDown while every call of the documents collection throws
  now,         \* the clock (new Date())
  thrown,      \* whether the most recent step ended by throwing to its caller
  logged,      \* whether the most recent step called addLog()
  runs,        \* number of accepted start() calls
  stopped,     \* whether a stop() has returned since the last accepted start()
  attempted,   \* attempted[i] = times document i entered the retry procedure in this run
  csv,         \* the CSV queue fields of the singleton
  csvTasks,    \* the CSV task objects created so far, in creation order
  csvCalls,    \* bag of CSV async calls in flight (queue loops, bulk inserts)
  reply,       \* what the step returned, when it was a status, statistics or log query
  cache        \* queryEmbeddingCache and the generateEmbedding() calls that missed it

\* the state of the CSV import
csvVars == <<csv, csvTasks, csvCalls>>

vars == <<service, tasks, store, failing, now, thrown, logged, runs, stopped, attempted,
          csv, csvTasks, csvCalls, reply, cache>>

Min(a, b) == IF a < b THEN a ELSE b
Max(a, b) == IF a > b THEN a ELSE b

\* ------------------------------------------------------------- the store
\* The "needs embedding" filter of start() and processEmbeddings():
\* skipExisting ? {embedding missing, empty or null} : {}
FilterAll(s) == ~s.skipExisting

Matches(filterAll, embedding) == filterAll \/ embedding = 0

\* ids of the documents matching the filter, in the store's (insertion) order
RECURSIVE MatchingFrom(_, _, _)
MatchingFrom(st, filterAll, i) ==
  IF i > Len(st) THEN <<>>
  ELSE (IF Matches(filterAll, st[i]) THEN <<i>> ELSE <<>>) \o MatchingFrom(st, filterAll, i + 1)

Matching(st, filterAll) == MatchingFrom(st, filterAll, 1)

\* Document.countDocuments(filter)
CountDocuments(st, filterAll) == Len(Matching(st, filterAll))

\* Document.find(filter).limit(limit).skip(skip).lean(): snapshots of the page
Find(st, filterAll, skip, limit) ==
  LET m == Matching(st, filterAll)
      page == SubSeq(m, skip + 1, Min(Len(m), skip + limit))
  IN [k \in 1..Len(page) |-> [id |-> page[k], embedding |-> st[page[k]]]]

\* --------------------------------------------------------- the singleton
\* constructor()
NewService ==
  [isRunning |-> FALSE, isPaused |-> FALSE, isStopping |-> FALSE,
   totalDocuments |-> 0, processedDocuments |-> 0, failedDocuments |-> 0,
   successCount |-> 0, pauseTime |-> NoTime, totalPauseDuration |-> 0,
   batchSize |-> DefaultBatchSize, delayBetweenBatches |-> DefaultDelayBetweenBatches,
   retryAttempts |-> DefaultRetryAttempts, skipExisting |-> TRUE, activeWorkers |-> 0,
   docLogs |-> [d \in 1..MaxDocs |-> 0],
   concurrentWorkers |-> DefaultConcurrentWorkers,
   logs |-> <<>>, logCount |-> 0,
   completes |-> 0]

\* (completes counts the calls of onCompleteCallback)
\* an async call in flight; the fields after pc are the locals of the batch
\* loop (filter, skip, the page, the document index, attempts); stop() keeps
\* its poll counter in attempts; sleep is the timeout of the backoff timer
\* the call waits on
NewTask(kind, pc) ==
  [kind |-> kind, pc |-> pc, filterAll |-> FALSE, skip |-> 0, limit |-> 0,
   docs |-> <<>>, idx |-> 0, attempts |-> 0, sleep |-> 0]

NoOptions == [key |-> "none", value |-> 0]

\* null, where a task object is expected
NoTask == 0

\* in failing: mongoose rejects every operation on the documents collection
StoreDown == 0

\* constructor(): "CSV Processing Queue"
NewCsv == [queue |-> <<>>, active |-> FALSE, current |-> NoTask, taskId |-> 0]

\* nothing returned yet
NoReply == [kind |-> "none"]

\* queryEmbeddingCache = new Map(): its keys in insertion order; calls: the
\* cache keys of the generateEmbedding() calls awaiting the model; sets
\* counts the entries stored (not a field of the code)
NewCache == [keys |-> <<>>, calls |-> EmptyBag, sets |-> 0]

ConfigOptions ==
  [key : {"batchSize"}, value : BatchSizeOptions]
    \cup [key : {"retryAttempts"}, value : RetryAttemptsOptions]
    \cup [key : {"skipExisting"}, value : {IF b THEN 1 ELSE 0 : b \in SkipExistingOptions}]

NumericOptions ==
  [key : {"batchSize"}, value : BatchSizeValues]
    \cup [key : {"delayBetweenBatches"}, value : DelayValues]
    \cup [key : {"retryAttempts"}, value : RetryAttemptsValues]
    \cup [key : {"concurrentWorkers"}, value : ConcurrentWorkersValues]

\* ------------------------------------------------------------ configure
\* configure(): this[key] = value for the valid keys
ApplyOption(s, o) ==
  CASE o.key = "batchSize" -> [s EXCEPT !.batchSize = o.value]
    [] o.key = "retryAttempts" -> [s EXCEPT !.retryAttempts = o.value]
    [] o.key = "delayBetweenBatches" -> [s EXCEPT !.delayBetweenBatches = o.value]
    [] o.key = "skipExisting" -> [s EXCEPT !.skipExisting = (o.value = 1)]
    [] o.key = "concurrentWorkers" -> [s EXCEPT !.concurrentWorkers = o.value]
    [] OTHER -> s

\* a configure() that validates nothing
ValidateConfiguration_None(s) == s

\* configure(): "Validate configuration"
ValidateConfiguration(s) ==
  [s EXCEPT !.batchSize = Max(1, Min(1000, @)),
            !.delayBetweenBatches = Max(0, @),
            !.retryAttempts = Max(0, Min(10, @)),
            !.concurrentWorkers = Max(1, Min(5, @))]

\* a configure() that asks for no run at all
ConfigureGuard_Running(s) == s.isRunning

\* configure(): if (this.isRunning && !this.isPaused) throw
ConfigureGuard(s) == s.isRunning /\ ~s.isPaused

\* configure(): the accepted call
ConfigureBody(s, o) == ValidateConfiguration(ApplyOption(s, o))

\* ------------------------------------------- the batch loop, synchronously
\* A configuration c = [s, t, a, l]: the service fields, the task's locals,
\* the attempt counters and whether addLog() was called.  Each operator runs the code from one point of
\* processEmbeddings()/processBatch() up to the next await (t.pc says which)
\* or to the end of processEmbeddings() (t.pc = "done").
RECURSIVE LoopTop(_), DocLoop(_), RetryLoop(_), SortBySimilarity(_)

\* addLog(level, message, data)
AddLog(c) == [c EXCEPT !.l = TRUE]

\* if (this.onCompleteCallback) this.onCompleteCallback(finalStatus)
OnComplete(c) == [c EXCEPT !.s.completes = @ + 1]

\* processEmbeddings(): "Process completion"
Completion(c) ==
  IF c.s.isRunning /\ ~c.s.isStopping
  THEN OnComplete(AddLog([c EXCEPT !.s.isRunning = FALSE, !.t.pc = "done"]))
  ELSE [c EXCEPT !.t.pc = "done"]

\* processEmbeddings(): await Document.find(filter).limit(batchSize).skip(skip)
IssueFind(c) == AddLog([c EXCEPT !.t.pc = "fetch", !.t.limit = c.s.batchSize])

\* processEmbeddings(): the while condition
LoopCondition(s) ==
  s.processedDocuments < s.totalDocuments /\ s.isRunning /\ ~s.isStopping

\* a loop that never looks at isPaused
LoopTop_NoPause(c) == IF LoopCondition(c.s) THEN IssueFind(c) ELSE Completion(c)

\* processEmbeddings(): one evaluation of the while condition and "Handle pause"
LoopTop(c) ==
  IF LoopCondition(c.s)
  THEN IF c.s.isPaused THEN AddLog([c EXCEPT !.t.pc = "pausewait"]) ELSE IssueFind(c)
  ELSE Completion(c)

\* skip += this.batchSize
NextSkip(skip, s) == skip + s.batchSize

\* processBatch(): finally activeWorkers--, then the rest of the iteration of
\* processEmbeddings(): skip += batchSize and the delay between batches
BatchEnd(c) ==
  LET c1 == [c EXCEPT !.s.activeWorkers = @ - 1,
                      !.t.skip = NextSkip(@, c.s),
                      !.t.docs = <<>>, !.t.idx = 0, !.t.attempts = 0]
  IN IF c1.s.delayBetweenBatches > 0 THEN [c1 EXCEPT !.t.pc = "delay"] ELSE LoopTop(c1)

\* processBatch(): the "already has embeddings" double check on the snapshot
SkipCheck(s, doc) == s.skipExisting /\ doc.embedding > 0

\* processBatch(): the counters of the skip branch
CountSkipped(s) == [s EXCEPT !.processedDocuments = @ + 1]

\* processBatch(): the counters after embedding and update succeeded
CountSuccess(s) == [s EXCEPT !.processedDocuments = @ + 1, !.successCount = @ + 1]

\* a failure counted in failedDocuments only
CountFailure_NotProcessed(s) == [s EXCEPT !.failedDocuments = @ + 1]

\* processBatch(): the counters once attempts > retryAttempts
CountFailure(s) == [s EXCEPT !.failedDocuments = @ + 1, !.processedDocuments = @ + 1]

\* processBatch(): addLog("warning", `Attempt n/m failed for document id`) and
\* addLog("error", `Failed to process document id after n attempts`): one more
\* entry of level warning or error naming the document
LogDocument(s, id) == [s EXCEPT !.docLogs[id] = Min(@ + 1, MaxDocLogs)]

\* processBatch(): the condition of the retry while (success is false here)
RetryCondition(attempts, s) == attempts <= s.retryAttempts /\ ~s.isStopping

\* processBatch(): the retry while of the document at t.idx
RetryLoop(c) ==
  IF RetryCondition(c.t.attempts, c.s)
  THEN IF SkipCheck(c.s, c.t.docs[c.t.idx])
       THEN DocLoop(AddLog([c EXCEPT !.s = CountSkipped(@), !.t.idx = @ + 1]))
       ELSE AddLog([c EXCEPT !.t.pc = "embed"])
  ELSE DocLoop([c EXCEPT !.t.idx = @ + 1])

\* processBatch(): the for loop, at the document at t.idx
DocLoop(c) ==
  IF c.t.idx > Len(c.t.docs) \/ c.s.isStopping
  THEN BatchEnd(c)
  ELSE RetryLoop([c EXCEPT !.t.attempts = 0,
                           !.a[c.t.docs[c.t.idx].id] = Min(@ + 1, MaxAttempted)])

\* processEmbeddings() entered: const filter = ..., let skip = 0 (start() and
\* resume() have logged by then)
EnterLoop(s, t, a) ==
  LoopTop([s |-> s, t |-> [t EXCEPT !.filterAll = FilterAll(s), !.skip = 0], a |-> a,
           l |-> TRUE])

\* ---------------------------------------------------------------- state
Init ==
  /\ service = NewService
  /\ tasks = EmptyBag
  /\ store \in UNION {[1..n -> {0, EmbeddingDim}] : n \in 0..MaxSpecDocs}
  /\ failing = {}
  /\ now = 0
  /\ thrown = FALSE
  /\ logged = FALSE
  /\ runs = 0
  /\ stopped = FALSE
  /\ attempted = [d \in 1..MaxDocs |-> 0]
  /\ csv = NewCsv
  /\ csvTasks = <<>>
  /\ csvCalls = EmptyBag
  /\ reply = NoReply
  /\ cache = NewCache

\* --------------------------------------------------------------- helpers
\* the task t has run up to its next await, or has returned
Replace(t, t2) ==
  (tasks (-) SetToBag({t})) (+) (IF t2.pc = "done" THEN EmptyBag ELSE SetToBag({t2}))

Spawn(t2) == tasks (+) (IF t2.pc = "done" THEN EmptyBag ELSE SetToBag({t2}))

Waiting(pc) == {t \in BagToSet(tasks) : t.pc = pc}

Commit(t, c) ==
  /\ service' = c.s
  /\ logged' = c.l
  /\ attempted' = c.a
  /\ tasks' = Replace(t, c.t)

\* ------------------------------------------------------- control calls
\* start(): if (this.isRunning) throw
StartGuard(s) == s.isRunning

\* start(): "Reset counters"
ResetCounters(s) ==
  [s EXCEPT !.isRunning = TRUE, !.isPaused = FALSE, !.isStopping = FALSE,
            !.processedDocuments = 0, !.failedDocuments = 0, !.successCount = 0,
            !.pauseTime = NoTime, !.totalPauseDuration = 0]

\* start(options), up to await connectToMongoDB()
Start(o) ==
  /\ IF StartGuard(service)
     THEN /\ thrown' = TRUE
          /\ logged' = FALSE
          /\ UNCHANGED <<service, tasks, store, failing, cache, now, runs, stopped, attempted, csvVars>>
          /\ reply' = NoReply
     ELSE /\ runs < MaxRuns
          /\ BagCardinality(tasks) < MaxTasks
          /\ thrown' = FALSE
          /\ logged' = TRUE
          /\ service' = ResetCounters(IF o = NoOptions THEN service ELSE ConfigureBody(service, o))
          /\ tasks' = Spawn(NewTask("start", "init"))
          /\ runs' = runs + 1
          /\ stopped' = FALSE
          /\ attempted' = [d \in 1..MaxDocs |-> 0]
          /\ UNCHANGED <<store, failing, cache, now, csvVars>>
          /\ reply' = NoReply

\* start(): connectToMongoDB, initializeEmbeddingPipeline and
\* validateSafetyFilter have returned; await Document.countDocuments(filter)
InitReturn(t) ==
  /\ t.pc = "init"
  /\ StoreDown \notin failing
  /\ tasks' = Replace(t, [t EXCEPT !.pc = "count", !.filterAll = FilterAll(service)])
  /\ UNCHANGED <<service, store, failing, cache, now, runs, stopped, attempted, csvVars>>
  /\ reply' = NoReply
  /\ thrown' = FALSE
  /\ logged' = TRUE

\* start(): the initialization threw; catch: isRunning = false, rethrow
InitFail(t) ==
  /\ t.pc = "init"
  /\ service' = [service EXCEPT !.isRunning = FALSE]
  /\ tasks' = Replace(t, [t EXCEPT !.pc = "done"])
  /\ UNCHANGED <<store, failing, cache, now, runs, stopped, attempted, csvVars>>
  /\ reply' = NoReply
  /\ thrown' = TRUE
  /\ logged' = TRUE

\* start(): Document.countDocuments(filter) threw; the catch of start()
CountFail(t) ==
  /\ t.pc = "count"
  /\ StoreDown \in failing
  /\ service' = [service EXCEPT !.isRunning = FALSE]
  /\ tasks' = Replace(t, [t EXCEPT !.pc = "done"])
  /\ UNCHANGED <<store, failing, cache, now, runs, stopped, attempted, csvVars>>
  /\ reply' = NoReply
  /\ thrown' = TRUE
  /\ logged' = TRUE

\* start(): the snapshot; zero documents ends the run, else processEmbeddings()
CountReturn(t) ==
  /\ t.pc = "count"
  /\ StoreDown \notin failing
  /\ LET s1 == [service EXCEPT !.totalDocuments = CountDocuments(store, t.filterAll)]
     IN IF s1.totalDocuments = 0
        THEN /\ service' = [s1 EXCEPT !.isRunning = FALSE, !.completes = @ + 1]
             /\ tasks' = Replace(t, [t EXCEPT !.pc = "done"])
             /\ attempted' = attempted
             /\ logged' = TRUE
        ELSE Commit(t, EnterLoop(s1, t, attempted))
  /\ UNCHANGED <<store, failing, cache, now, runs, stopped, csvVars>>
  /\ reply' = NoReply
  /\ thrown' = FALSE

\* a pause() that only asks for a run
PauseGuard_RunningOnly(s) == ~s.isRunning

\* pause(): if (!this.isRunning || this.isPaused) throw
PauseGuard(s) == ~s.isRunning \/ s.isPaused

\* pause()
Pause ==
  /\ IF PauseGuard(service)
     THEN /\ thrown' = TRUE
          /\ logged' = FALSE
          /\ UNCHANGED service
     ELSE /\ thrown' = FALSE
          /\ logged' = TRUE
          /\ service' = [service EXCEPT !.isPaused = TRUE, !.pauseTime = now]
  /\ UNCHANGED <<tasks, store, failing, cache, now, runs, stopped, attempted, csvVars>>
  /\ reply' = NoReply

\* resume(): if (!this.isRunning || !this.isPaused) throw
ResumeGuard(s) == ~s.isRunning \/ ~s.isPaused

\* resume(): "Calculate pause duration"
AccumulatePause(s, t) ==
  [s EXCEPT !.totalPauseDuration = @ + (t - s.pauseTime),
            !.isPaused = FALSE, !.pauseTime = NoTime]

\* resume(): what "Continue processing" runs: processEmbeddings() anew
ResumeLoop(s, a) == EnterLoop(s, NewTask("resume", "top"), a)

\* resume(), up to the first await of the processEmbeddings() it calls
Resume ==
  /\ IF ResumeGuard(service)
     THEN /\ thrown' = TRUE
          /\ logged' = FALSE
          /\ UNCHANGED <<service, tasks, attempted>>
     ELSE /\ BagCardinality(tasks) < MaxTasks
          /\ thrown' = FALSE
          /\ LET c == ResumeLoop(AccumulatePause(service, now), attempted)
             IN /\ service' = c.s
                /\ logged' = c.l
                /\ attempted' = c.a
                /\ tasks' = Spawn(c.t)
  /\ UNCHANGED <<store, failing, cache, now, runs, stopped, csvVars>>
  /\ reply' = NoReply

\* stop(): if (!this.isRunning) throw
StopGuard(s) == ~s.isRunning

\* stop(): the condition of the wait for the current batch
StopWaits(s, attempts) == s.activeWorkers > 0 /\ attempts < StopMaxAttempts

\* stop(): after the wait
StopFinish(s) == [s EXCEPT !.isRunning = FALSE, !.isPaused = FALSE, !.isStopping = FALSE]

\* stop(), up to its first sleep (or to its end when no batch is active)
Stop ==
  /\ IF StopGuard(service)
     THEN /\ thrown' = TRUE
          /\ logged' = FALSE
          /\ UNCHANGED <<service, tasks, stopped>>
     ELSE LET s1 == [service EXCEPT !.isStopping = TRUE]
          IN IF StopWaits(s1, 0)
             THEN /\ BagCardinality(tasks) < MaxTasks + 1
                  /\ thrown' = FALSE
                  /\ logged' = TRUE
                  /\ service' = s1
                  /\ tasks' = Spawn(NewTask("stop", "stopwait"))
                  /\ UNCHANGED stopped
             ELSE /\ thrown' = FALSE
                  /\ logged' = TRUE
                  /\ service' = StopFinish(s1)
                  /\ stopped' = TRUE
                  /\ UNCHANGED tasks
  /\ UNCHANGED <<store, failing, cache, now, runs, attempted, csvVars>>
  /\ reply' = NoReply

\* stop(): a 1 s sleep of the wait has elapsed and no batch is active any more
StopPoll(t) ==
  /\ t.pc = "stopwait"
  /\ ~StopWaits(service, t.attempts + 1)
  /\ tasks' = Replace(t, [t EXCEPT !.pc = "done"])
  /\ service' = StopFinish(service)
  /\ stopped' = TRUE
  /\ UNCHANGED <<store, failing, cache, now, runs, attempted, csvVars>>
  /\ reply' = NoReply
  /\ thrown' = FALSE
  /\ logged' = TRUE

\* stop(): the sleeps up to attempts = 30 have all elapsed with the batch
\* still active (no step of the batch loop is bound to happen within them)
StopTimeout(t) ==
  /\ t.pc = "stopwait"
  /\ service.activeWorkers > 0
  /\ ~StopWaits(service, StopMaxAttempts)
  /\ tasks' = Replace(t, [t EXCEPT !.pc = "done"])
  /\ service' = StopFinish(service)
  /\ stopped' = TRUE
  /\ UNCHANGED <<store, failing, cache, now, runs, attempted, csvVars>>
  /\ reply' = NoReply
  /\ thrown' = FALSE
  /\ logged' = TRUE

\* configure(options)
Configure(o) ==
  /\ IF ConfigureGuard(service)
     THEN /\ thrown' = TRUE
          /\ logged' = FALSE
          /\ UNCHANGED service
     ELSE /\ thrown' = FALSE
          /\ logged' = TRUE
          /\ service' = ConfigureBody(service, o)
  /\ UNCHANGED <<tasks, store, failing, cache, now, runs, stopped, attempted, csvVars>>
  /\ reply' = NoReply

\* ------------------------------------------------ the batch loop, steps
\* the 1 s sleep of "Handle pause" has elapsed and the wait is over
PauseWake(t) ==
  /\ t.pc = "pausewait"
  /\ ~(service.isPaused /\ service.isRunning)
  /\ LET c == [s |-> service, t |-> t, a |-> attempted, l |-> FALSE]
     IN Commit(t, IF ~service.isRunning THEN Completion(c) ELSE IssueFind(c))
  /\ UNCHANGED <<store, failing, cache, now, runs, stopped, csvVars>>
  /\ reply' = NoReply
  /\ thrown' = FALSE

\* Document.find() has returned the page; processBatch() up to its first await
FetchReturn(t) ==
  /\ t.pc = "fetch"
  /\ StoreDown \notin failing
  /\ LET documents == Find(store, t.filterAll, t.skip, t.limit)
         c == [s |-> service, t |-> t, a |-> attempted, l |-> FALSE]
     IN Commit(t, IF Len(documents) = 0
                  THEN Completion(AddLog(c))
                  ELSE DocLoop([c EXCEPT !.s.activeWorkers = @ + 1,
                                         !.t.docs = documents, !.t.idx = 1]))
  /\ UNCHANGED <<store, failing, cache, now, runs, stopped, csvVars>>
  /\ reply' = NoReply
  /\ thrown' = FALSE

\* Document.find() threw: the catch of the iteration logs "Batch n failed"
\* and the while goes on; skip += batchSize and the delay are inside the try,
\* after processBatch(), and are not reached
FetchFail(t) ==
  /\ t.pc = "fetch"
  /\ StoreDown \in failing
  /\ Commit(t, LoopTop(AddLog([s |-> service, t |-> t, a |-> attempted, l |-> FALSE])))
  /\ UNCHANGED <<store, failing, cache, now, runs, stopped, csvVars>>
  /\ reply' = NoReply
  /\ thrown' = FALSE

\* generateEmbedding() and findByIdAndUpdate() have succeeded for the document
EmbedSuccess(t) ==
  /\ t.pc = "embed"
  /\ LET doc == t.docs[t.idx]
     IN /\ doc.id \notin failing
        /\ StoreDown \notin failing
        /\ store' = [store EXCEPT ![doc.id] = EmbeddingDim]
        /\ Commit(t, DocLoop([s |-> CountSuccess(service),
                              t |-> [t EXCEPT !.idx = @ + 1],
                              a |-> attempted, l |-> TRUE]))
  /\ UNCHANGED <<failing, cache, now, runs, stopped, csvVars>>
  /\ reply' = NoReply
  /\ thrown' = FALSE

\* a retry that waits the same time after every failure
BackoffDelay_Fixed(attempts) == BackoffUnit

\* processBatch(): setTimeout(resolve, 1000 * attempts)
BackoffDelay(attempts) == BackoffUnit * attempts

\* generateEmbedding() (or the update) threw: the catch of the retry loop
EmbedFailure(t) ==
  /\ t.pc = "embed"
  /\ t.docs[t.idx].id \in failing \/ StoreDown \in failing
  /\ LET n == t.attempts + 1
         id == t.docs[t.idx].id
         c == [s |-> LogDocument(service, id), t |-> [t EXCEPT !.attempts = n],
               a |-> attempted, l |-> TRUE]
     IN Commit(t, IF n > service.retryAttempts
                  THEN RetryLoop([c EXCEPT !.s = LogDocument(CountFailure(@), id)])
                  ELSE [c EXCEPT !.t.pc = "backoff", !.t.sleep = BackoffDelay(n)])
  /\ UNCHANGED <<store, failing, cache, now, runs, stopped, csvVars>>
  /\ reply' = NoReply
  /\ thrown' = FALSE

\* the backoff sleep (1000 ms * attempts) has elapsed
BackoffWake(t) ==
  /\ t.pc = "backoff"
  /\ Commit(t, RetryLoop([s |-> service, t |-> [t EXCEPT !.sleep = 0], a |-> attempted,
                          l |-> FALSE]))
  /\ UNCHANGED <<store, failing, cache, now, runs, stopped, csvVars>>
  /\ reply' = NoReply
  /\ thrown' = FALSE

\* the delay between batches has elapsed
DelayWake(t) ==
  /\ t.pc = "delay"
  /\ Commit(t, LoopTop([s |-> service, t |-> t, a |-> attempted, l |-> FALSE]))
  /\ UNCHANGED <<store, failing, cache, now, runs, stopped, csvVars>>
  /\ reply' = NoReply
  /\ thrown' = FALSE

\* ------------------------------------------------------- the environment
\* processRecordBatch(): Document.insertMany(records) of the CSV import adds
\* n documents with embedding: []
ProcessRecordBatch(n) ==
  /\ Len(store) + n <= MaxSpecDocs
  /\ store' = store \o [k \in 1..n |-> 0]
  /\ UNCHANGED <<service, tasks, failing, cache, now, runs, stopped, attempted, csvVars>>
  /\ reply' = NoReply
  /\ thrown' = FALSE
  /\ logged' = FALSE

\* the database becomes unreachable
StoreFails ==
  /\ StoreDown \notin failing
  /\ failing' = failing \cup {StoreDown}
  /\ UNCHANGED <<service, tasks, store, cache, now, runs, stopped, attempted, csvVars>>
  /\ reply' = NoReply
  /\ thrown' = FALSE
  /\ logged' = FALSE

\* time passes; the clock is read by pause() and resume() only, so only the
\* time that elapses during a pause is tracked
Tick ==
  /\ service.isPaused
  /\ now < MaxTime
  /\ now' = now + 1
  /\ UNCHANGED <<service, tasks, store, failing, cache, runs, stopped, attempted, csvVars>>
  /\ reply' = NoReply
  /\ thrown' = FALSE
  /\ logged' = FALSE

\* ------------------------------------------------------- the CSV queue
\* addCsvToQueue(): const csvTask = {...}; rows is the number of data rows of
\* the file at filePath (after its header row)
\* (added is not a field of the code: the records of the task that insertMany
\* has put into the collection)
NewCsvTask(id, rows, batchSize, clearExisting, generateEmbeddings) ==
  [id |-> id, status |-> "queued", rows |-> rows, batchSize |-> batchSize,
   clearExisting |-> clearExisting, generateEmbeddings |-> generateEmbeddings,
   totalRecords |-> 0, processedRecords |-> 0,
   insertedRecords |-> 0, failedRecords |-> 0, progress |-> 0, error |-> FALSE,
   added |-> 0]

\* a CSV async call in flight: a startCsvProcessing() loop awaiting
\* processCsvFile(task) (pc "delete", "stream" or "endinsert"; read and
\* buffered are totalProcessed - 1 and records.length), or a
\* processRecordBatch(records, task) of n records that nobody awaits ("insert")
NewCsvCall(task, pc, n) == [task |-> task, pc |-> pc, read |-> 0, buffered |-> 0, n |-> n]

CsvWaiting(pc) == {k \in BagToSet(csvCalls) : k.pc = pc}

\* A configuration q = [csv, tasks, calls, store]: the queue fields, the task
\* objects, the CSV calls in flight and the documents collection.
\* processCsvFile(task) up to its first await
ProcessCsvFile(q, i) ==
  [q EXCEPT !.tasks[i].status = "processing",
            !.calls = @ (+) SetToBag({NewCsvCall(i,
                          IF q.tasks[i].clearExisting THEN "delete" ELSE "stream", 0)})]

\* the while condition without the test of csvProcessingActive
CsvLoopCondition_QueueOnly(c) == Len(c.queue) > 0

\* startCsvProcessing(): the while condition
CsvLoopCondition(c) == Len(c.queue) > 0 /\ c.active

\* startCsvProcessing(): one evaluation of the while condition; either the
\* next task is shifted and processed or the loop ends
CsvLoopTop(q) ==
  IF CsvLoopCondition(q.csv)
  THEN ProcessCsvFile([q EXCEPT !.csv.queue = Tail(@), !.csv.current = Head(q.csv.queue)],
                      Head(q.csv.queue))
  ELSE [q EXCEPT !.csv.active = FALSE, !.csv.current = NoTask]

StartCsvGuard(c) == c.active \/ Len(c.queue) = 0

\* startCsvProcessing() up to its first await
StartCsvProcessingBody(q) ==
  IF StartCsvGuard(q.csv) THEN q ELSE CsvLoopTop([q EXCEPT !.csv.active = TRUE])

\* updateCsvProgress(task); the percentage is kept as a whole number
UpdateCsvProgress(task) ==
  IF task.totalRecords > 0
  THEN [task EXCEPT !.progress = Min(100, (task.processedRecords * 100) \div task.totalRecords)]
  ELSE task

\* Document.insertMany(records, { ordered: false }) of n records: all are
\* inserted; or some are not (a duplicate key, a value that cannot be cast)
\* and the call throws after inserting the others, or returns only the
\* inserted ones
InsertedAll(n) == [inserted |-> n, threw |-> FALSE]

InsertedNone(n) == [inserted |-> 0, threw |-> TRUE]

AllOrNothing(n) == {InsertedAll(n), InsertedNone(n)}

InsertOutcomes(n) == {InsertedAll(n)} \cup [inserted : 0..(n - 1), threw : BOOLEAN]

\* processRecordBatch(): the value returned
BatchCount(r) == IF r.threw THEN 0 ELSE r.inserted

\* processRecordBatch(records, task) has settled with outcome r of insertMany
ProcessRecordBatchSettled(q, i, n, r) ==
  LET q1 == [q EXCEPT !.store = @ \o [k \in 1..r.inserted |-> 0],
                      !.tasks[i].added = @ + r.inserted]
  IN IF r.threw THEN [q1 EXCEPT !.tasks[i].failedRecords = @ + n] ELSE q1

\* processCsvFile(): the .then() of a batch issued from the "data" handler
BatchThen(q, i, n, r) ==
  LET q1 == ProcessRecordBatchSettled(q, i, n, r)
      t1 == [q1.tasks[i] EXCEPT !.insertedRecords = @ + BatchCount(r),
                                !.processedRecords = @ + q1.tasks[i].batchSize]
  IN [q1 EXCEPT !.tasks[i] = UpdateCsvProgress(t1)]

\* processCsvFile(): the end of the "end" handler, from totalRecords on
CsvCompleted(q, i, read) ==
  [q EXCEPT !.tasks[i].totalRecords = read,
            !.tasks[i].status = "completed",
            !.tasks[i].progress = 100]

\* processCsvFile(): the "error" handler, then the catch of startCsvProcessing()
CsvFailed(q, i) == [q EXCEPT !.tasks[i].status = "failed", !.tasks[i].error = TRUE]

CsvConfig == [csv |-> csv, tasks |-> csvTasks, calls |-> csvCalls, store |-> store]

CsvCommit(q) ==
  /\ csv' = q.csv
  /\ csvTasks' = q.tasks
  /\ csvCalls' = q.calls
  /\ store' = q.store

\* the embedding service is not touched by the step
CsvOnly(didLog) ==
  /\ thrown' = FALSE
  /\ logged' = didLog
  /\ UNCHANGED <<service, tasks, failing, cache, now, runs, stopped, attempted>>
  /\ reply' = NoReply

\* addCsvToQueue(): options: { generateEmbeddings: options.generateEmbeddings
\* || true, ...options }: the value before the spread is always true, and the
\* spread puts the caller's value over it when the caller gave one (g is
\* NoOption, "true" or "false")
GenerateEmbeddingsOf(g) == IF g = NoOption THEN TRUE ELSE g = "true"

\* addCsvToQueue(filePath, fileName, options)
AddCsvToQueue(rows, batchSize, clearExisting, g) ==
  /\ csv.taskId < MaxCsvTasks
  /\ LET id == csv.taskId + 1
         i == Len(csvTasks) + 1
         q == [CsvConfig EXCEPT !.csv.taskId = id,
                                !.tasks = Append(@, NewCsvTask(id, rows, batchSize, clearExisting,
                                                                   GenerateEmbeddingsOf(g))),
                                !.csv.queue = Append(@, i)]
     IN CsvCommit(IF ~q.csv.active THEN StartCsvProcessingBody(q) ELSE q)
  /\ CsvOnly(TRUE)

\* startCsvProcessing(), called from outside
StartCsvProcessing ==
  /\ CsvCommit(StartCsvProcessingBody(CsvConfig))
  /\ CsvOnly(~StartCsvGuard(csv))

\* stopCsvProcessing()
StopCsvProcessing ==
  /\ csv' = [csv EXCEPT !.active = FALSE]
  /\ UNCHANGED <<csvTasks, csvCalls, store>>
  /\ CsvOnly(TRUE)

\* clearCsvQueue()
ClearCsvQueue ==
  /\ csv' = [csv EXCEPT !.queue = <<>>, !.current = NoTask]
  /\ UNCHANGED <<csvTasks, csvCalls, store>>
  /\ CsvOnly(TRUE)

\* processCsvFile(): Document.deleteMany({}) has returned; the stream is set up
CsvDeleted(k) ==
  /\ k.pc = "delete"
  /\ CsvCommit([CsvConfig EXCEPT !.store = <<>>,
                  !.calls = (@ (-) SetToBag({k})) (+) SetToBag({[k EXCEPT !.pc = "stream"]})])
  /\ CsvOnly(FALSE)

\* processCsvFile(): the "data" handler for one data row
CsvData(k) ==
  /\ k.pc = "stream"
  /\ k.read < csvTasks[k.task].rows
  /\ LET b == csvTasks[k.task].batchSize
         full == k.buffered + 1 >= b
         k1 == [k EXCEPT !.read = @ + 1, !.buffered = IF full THEN @ + 1 - b ELSE @ + 1]
     IN CsvCommit([CsvConfig EXCEPT !.calls =
          ((@ (-) SetToBag({k})) (+) SetToBag({k1}))
            (+) (IF full THEN SetToBag({NewCsvCall(k.task, "insert", b)}) ELSE EmptyBag)])
  /\ CsvOnly(FALSE)

\* the loop of startCsvProcessing() without its try/catch: a rejected
\* processCsvFile() ends the loop where it stands
CsvSettle_NoCatch(k, q, completed) ==
  /\ CsvCommit(IF completed THEN CsvLoopTop([q EXCEPT !.calls = @ (-) SetToBag({k})])
               ELSE [q EXCEPT !.calls = @ (-) SetToBag({k})])
  /\ thrown' = FALSE
  /\ logged' = TRUE
  /\ IF completed /\ q.tasks[k.task].generateEmbeddings /\ ~service.isRunning
     THEN /\ service' = ResetCounters(service)
          /\ tasks' = Spawn(NewTask("start", "init"))
          /\ runs' = runs + 1
          /\ stopped' = FALSE
          /\ attempted' = [d \in 1..MaxDocs |-> 0]
     ELSE UNCHANGED <<service, tasks, runs, stopped, attempted>>
  /\ UNCHANGED <<failing, cache, now>>
  /\ reply' = NoReply

\* what follows resolve(task) / reject(error): start() if the task asks for
\* embeddings and no run is active (completed tasks only), then the next turn
\* of the startCsvProcessing() loop
CsvSettle(k, q, completed) ==
  /\ CsvCommit(CsvLoopTop([q EXCEPT !.calls = @ (-) SetToBag({k})]))
  /\ thrown' = FALSE
  /\ logged' = TRUE
  /\ IF completed /\ q.tasks[k.task].generateEmbeddings /\ ~service.isRunning
     THEN /\ service' = ResetCounters(service)
          /\ tasks' = Spawn(NewTask("start", "init"))
          /\ runs' = runs + 1
          /\ stopped' = FALSE
          /\ attempted' = [d \in 1..MaxDocs |-> 0]
     ELSE UNCHANGED <<service, tasks, runs, stopped, attempted>>
  /\ UNCHANGED <<failing, cache, now>>
  /\ reply' = NoReply

\* processCsvFile(): the "end" handler up to its await, or to its end when no
\* record is left over
CsvEnd(k) ==
  /\ k.pc = "stream"
  /\ k.read = csvTasks[k.task].rows
  /\ IF k.buffered > 0
     THEN /\ CsvCommit([CsvConfig EXCEPT !.calls =
                 (@ (-) SetToBag({k})) (+) SetToBag({[k EXCEPT !.pc = "endinsert"]})])
          /\ CsvOnly(FALSE)
     ELSE CsvSettle(k, CsvCompleted(CsvConfig, k.task, k.read), TRUE)

\* processCsvFile(): the insert of the remaining records has settled
CsvEndInsert(k, r) ==
  /\ k.pc = "endinsert"
  /\ LET q1 == ProcessRecordBatchSettled(CsvConfig, k.task, k.buffered, r)
         q2 == [q1 EXCEPT !.tasks[k.task].insertedRecords = @ + BatchCount(r),
                          !.tasks[k.task].processedRecords = @ + k.buffered]
     IN CsvSettle(k, CsvCompleted(q2, k.task, k.read), TRUE)

\* processCsvFile(): the stream emits "error"
CsvStreamError(k) ==
  /\ k.pc = "stream"
  /\ CsvSettle(k, CsvFailed(CsvConfig, k.task), FALSE)

\* a batch issued from the "data" handler has settled
CsvBatchSettled(k, r) ==
  /\ k.pc = "insert"
  /\ CsvCommit(BatchThen([CsvConfig EXCEPT !.calls = @ (-) SetToBag({k})], k.task, k.n, r))
  /\ CsvOnly(r.threw)

\* ----------------------------------------------------------------- search
\* Array.prototype.slice(0, end)
JsSliceTo(seq, end) ==
  LET to == IF end < 0 THEN Max(Len(seq) + end, 0) ELSE Min(end, Len(seq))
  IN SubSeq(seq, 1, to)

\* one step of results.sort((a, b) => b.similarity - a.similarity): e goes
\* behind the entries that are not smaller (the sort is stable)
InsertBySimilarity(e, sorted) ==
  LET ahead == {n \in 1..Len(sorted) : sorted[n].similarity >= e.similarity}
      k == Cardinality(ahead)
  IN SubSeq(sorted, 1, k) \o <<e>> \o SubSeq(sorted, k + 1, Len(sorted))

\* the fallback search without its sort
SortBySimilarity_None(results) == results

\* results.sort((a, b) => b.similarity - a.similarity)
SortBySimilarity(results) ==
  IF results = <<>> THEN <<>>
  ELSE InsertBySimilarity(results[Len(results)],
                          SortBySimilarity(SubSeq(results, 1, Len(results) - 1)))

\* the documents of the collection, in order, as search results
Scored(docs, sim) ==
  LET all == [i \in 1..Len(store) |-> [doc |-> i, similarity |-> sim[i]]]
  IN SelectSeq(all, LAMBDA e : e.doc \in docs)

\* semanticSearchFallback(query, topK, filters): find() of the documents that
\* have an embedding and match the filters, map, sort, slice(0, topK)
SemanticSearchFallback(topK, sim, match) ==
  LET found == {i \in 1..Len(store) : store[i] > 0 /\ i \in match}
      documents == JsSliceTo(Scored(found, sim), MaxFallbackDocuments)
  IN JsSliceTo(SortBySimilarity(documents), topK)

\* what $vectorSearch can return: at most limit = topK * 2 of the documents
\* that have an embedding, the nearest it has found, by descending score
Nearest(topK, sim) ==
  LET indexed == {i \in 1..Len(store) : store[i] > 0}
      longest == Min(topK * 2, Cardinality(indexed))
  IN {q \in UNION {[1..k -> indexed] : k \in 0..longest} :
        /\ \A m, n \in 1..Len(q) : m # n => q[m] # q[n]
        /\ \A n \in 1..(Len(q) - 1) : sim[q[n]] >= sim[q[n + 1]]}

\* the aggregation of semanticSearch(): $vectorSearch, $addFields of the
\* score, $match on the filters, $limit topK
VectorSearchPipeline(topK, sim, match, nearest) ==
  LET stage1 == [n \in 1..Len(nearest) |-> [doc |-> nearest[n], similarity |-> sim[nearest[n]]]]
      stage2 == SelectSeq(stage1, LAMBDA e : e.doc \in match)
  IN SubSeq(stage2, 1, Min(topK, Len(stage2)))

\* an async search call that rejected with the error of the named call, and
\* one that resolved with results
SearchFailed(call) == [threw |-> TRUE, error |-> call, results |-> <<>>]

SearchReturned(results) == [threw |-> FALSE, error |-> "", results |-> results]

\* semanticSearch(): await Document.aggregate(pipeline); it throws when the
\* index is missing or unavailable, or when a limit is not positive
Aggregate(topK, sim, match, nearest, indexOk) ==
  IF indexOk /\ topK > 0
  THEN SearchReturned(VectorSearchPipeline(topK, sim, match, nearest))
  ELSE SearchFailed("aggregate")

\* semanticSearch(): await semanticSearchFallback(query, topK, filters); it
\* throws when its Document.find() does
FallbackCall(topK, sim, match, findOk) ==
  IF findOk THEN SearchReturned(SemanticSearchFallback(topK, sim, match))
  ELSE SearchFailed("semanticSearchFallback")

\* a search without the catch: the error of the aggregation is the outcome
SearchCatch_Rethrow(first, fallback) == first

\* semanticSearch(): try { return results } catch { return await fallback }
SearchCatch(first, fallback) == IF first.threw THEN fallback ELSE first

\* semanticSearch(query, topK, filters) as the search routes call it: the
\* route returns the query (here the similarity of each document to it), the
\* filters and topK with the results, or the error (fallback: the catch of
\* semanticSearch() has printed "Falling back ...")
SemanticSearch(topK, sim, match, nearest, indexOk, findOk) ==
  LET first == Aggregate(topK, sim, match, nearest, indexOk)
      out == SearchCatch(first, FallbackCall(topK, sim, match, findOk))
  IN /\ reply' = IF out.threw THEN [kind |-> "searcherror", error |-> out.error]
                 ELSE [kind |-> "search", query |-> sim, filters |-> match, topK |-> topK,
                       results |-> out.results, fallback |-> first.threw]
     /\ thrown' = out.threw
     /\ logged' = FALSE
     /\ UNCHANGED <<service, tasks, store, failing, cache, now, runs, stopped, attempted, csvVars>>

\* ------------------------------------------------------ the embedding cache
Texts == UNION {[1..n -> TextChars] : n \in 0..MaxTextLen}

\* String.prototype.toLowerCase()
ToLowerCase(text) == [n \in 1..Len(text) |-> IF text[n] = "B" THEN "b" ELSE text[n]]

\* String.prototype.trim()
Trim(text) ==
  LET inked == {n \in 1..Len(text) : text[n] # " "}
  IN IF inked = {} THEN <<>>
     ELSE SubSeq(text, CHOOSE n \in inked : \A m \in inked : n <= m,
                       CHOOSE n \in inked : \A m \in inked : n >= m)

\* generateEmbedding(): const cacheKey = text.toLowerCase().trim()
CacheKey(text) == Trim(ToLowerCase(text))

\* queryEmbeddingCache.has(key)
CacheHas(keys, key) == \E n \in 1..Len(keys) : keys[n] = key

\* queryEmbeddingCache.delete(key)
CacheDelete(keys, key) == SelectSeq(keys, LAMBDA k : k # key)

\* queryEmbeddingCache.set(key, embedding): a key that is present keeps its
\* place
CacheSet(keys, key) == IF CacheHas(keys, key) THEN keys ELSE Append(keys, key)

\* "Cache the result" without the size limit
CacheResult_NoLimit(keys, key) == CacheSet(keys, key)

\* generateEmbedding(): "Cache the result (with size limit)"
CacheResult(keys, key) ==
  IF Len(keys) >= CACHE_SIZE_LIMIT
  THEN CacheSet(CacheDelete(keys, keys[1]), key)
  ELSE CacheSet(keys, key)

\* a cache of n entries stored earlier, oldest first
CacheDigits == <<"0", "1", "2", "3", "4", "5", "6", "7", "8", "9">>

FilledCache(n) ==
  [k \in 1..n |-> <<"q", CacheDigits[(((k - 1) \div 10) % 10) + 1],
                        CacheDigits[((k - 1) % 10) + 1]>>]

\* what a step of generateEmbedding() leaves alone
CacheFrame ==
  /\ thrown' = FALSE
  /\ logged' = FALSE
  /\ reply' = NoReply
  /\ UNCHANGED <<service, tasks, store, failing, now, runs, stopped, attempted, csvVars>>

\* generateEmbedding(text) up to its return from the cache or to its await
GenerateEmbedding(text) ==
  /\ IF CacheHas(cache.keys, CacheKey(text))
     THEN UNCHANGED cache
     ELSE /\ BagCardinality(cache.calls) < MaxEmbedCalls
          /\ cache.sets + BagCardinality(cache.calls) < MaxCacheSets
          /\ cache' = [cache EXCEPT !.calls = @ (+) SetToBag({CacheKey(text)})]
  /\ CacheFrame

\* generateEmbedding(): the model has returned the embedding
EmbeddingComputed(key) ==
  /\ BagIn(key, cache.calls)
  /\ cache' = [cache EXCEPT !.calls = @ (-) SetToBag({key}),
                            !.keys = CacheResult(@, key),
                            !.sets = @ + 1]
  /\ CacheFrame

\* generateEmbedding(): loading or running the model has thrown
EmbeddingFailed(key) ==
  /\ BagIn(key, cache.calls)
  /\ cache' = [cache EXCEPT !.calls = @ (-) SetToBag({key})]
  /\ thrown' = TRUE
  /\ logged' = FALSE
  /\ reply' = NoReply
  /\ UNCHANGED <<service, tasks, store, failing, now, runs, stopped, attempted, csvVars>>

\* ---------------------------------------------------------------- restart
\* the server process is restarted: the module is loaded again and the
\* singleton is constructed anew; the async calls of the old process are
\* gone, the documents collection is in the database and stays (runs,
\* stopped and attempted describe the calls made to one process)
Restart ==
  /\ Len(store) <= MaxSpecDocs
  /\ service' = NewService
  /\ tasks' = EmptyBag
  /\ csv' = NewCsv
  /\ csvTasks' = <<>>
  /\ csvCalls' = EmptyBag
  /\ attempted' = [d \in 1..MaxDocs |-> 0]
  /\ thrown' = FALSE
  /\ logged' = FALSE
  /\ reply' = NoReply
  /\ runs' = 0
  /\ stopped' = FALSE
  /\ cache' = NewCache
  /\ UNCHANGED <<store, failing, now>>

\* start(): await connectToMongoDB() and mongoose.connect() rejected; the
\* catch of connectToMongoDB() prints the error and calls process.exit(1), so
\* nothing returns to start(): the process ends, and the next state is that of
\* the process that is started in its place
ConnectFail(t) ==
  /\ t.pc = "init"
  /\ Restart

\* ------------------------------------------------------------ the log ring
\* Array.prototype.slice(start): a negative start counts from the end
JsSlice(seq, start) ==
  LET from == IF start < 0 THEN Max(Len(seq) + start, 0) ELSE Min(start, Len(seq))
  IN SubSeq(seq, from + 1, Len(seq))

\* Array.prototype.reverse()
Reverse(seq) == [n \in 1..Len(seq) |-> seq[Len(seq) + 1 - n]]

\* addLog(): the entry; n, the number of the addLog() call, stands for the
\* timestamp
NewLogEntry(n, level, s) ==
  [n |-> n, level |-> level, processedCount |-> s.processedDocuments]

\* addLog() without "Keep logs within limit"
KeepWithinLimit_Unbounded(logs) == logs

\* addLog(): "Keep logs within limit"
KeepWithinLimit(logs) ==
  IF Len(logs) > MaxLogEntries THEN JsSlice(logs, -MaxLogEntries) ELSE logs

\* addLog(level, message, data) on the ring
AddLogEntry(s, level) ==
  [s EXCEPT !.logCount = @ + 1,
            !.logs = KeepWithinLimit(Append(@, NewLogEntry(s.logCount + 1, level, s)))]

\* a ring of n entries, as n calls of addLog() leave it
FilledRing(n) ==
  [k \in 1..n |-> [n |-> k, level |-> IF k % 2 = 0 THEN "warning" ELSE "info",
                   processedCount |-> 0]]

\* what a step on the ring leaves alone
LogFrame ==
  /\ thrown' = FALSE
  /\ reply' = NoReply
  /\ UNCHANGED <<tasks, store, failing, cache, now, runs, stopped, attempted, csvVars>>

\* addLog(level, message, data), called on its own
AddLogCall(level) ==
  /\ service.logCount < MaxLogEntries + MaxLogAdds
  /\ service' = AddLogEntry(service, level)
  /\ logged' = TRUE
  /\ LogFrame

\* clearLogs()
ClearLogs ==
  /\ service.logCount < MaxLogEntries + MaxLogAdds
  /\ service' = AddLogEntry([service EXCEPT !.logs = <<>>], "info")
  /\ logged' = TRUE
  /\ LogFrame

\* --------------------------------------------------------------- queries
\* ((num / den) * 100).toFixed(2), kept as a number of hundredths
Percent(num, den) == (num * 20000 + den) \div (2 * den)

\* getStatus(): the fields of the returned object that the model keeps
StatusOf(s) ==
  [kind |-> "status",
   isRunning |-> s.isRunning, isPaused |-> s.isPaused, isStopping |-> s.isStopping,
   totalDocuments |-> s.totalDocuments, processedDocuments |-> s.processedDocuments,
   failedDocuments |-> s.failedDocuments, successDocuments |-> s.successCount,
   progress |-> IF s.totalDocuments > 0
                THEN Percent(s.processedDocuments, s.totalDocuments) ELSE 0,
   pauseTime |-> s.pauseTime, totalPauseDuration |-> s.totalPauseDuration,
   batchSize |-> s.batchSize, delayBetweenBatches |-> s.delayBetweenBatches,
   retryAttempts |-> s.retryAttempts, concurrentWorkers |-> s.concurrentWorkers,
   activeWorkers |-> s.activeWorkers, skipExisting |-> s.skipExisting]

\* getStatistics(): { ...status, statistics: { successRate, failureRate } }
StatisticsOf(s) ==
  [kind |-> "statistics",
   status |-> StatusOf(s),
   successRate |-> IF s.processedDocuments > 0
                   THEN Percent(s.successCount, s.processedDocuments) ELSE 0,
   failureRate |-> IF s.processedDocuments > 0
                   THEN Percent(s.failedDocuments, s.processedDocuments) ELSE 0]

\* getLogs(limit, level): slice() copies before reverse()
LogsOf(s, limit, level) ==
  LET logs == IF level # NoLevel THEN SelectSeq(s.logs, LAMBDA e : e.level = level)
              ELSE s.logs
  IN [kind |-> "logs", entries |-> Reverse(JsSlice(logs, -limit))]

\* getCsvQueueStatus(); currentTask is <<>> for null, else <<the task>>
CsvQueueStatusOf(c, ts) ==
  [kind |-> "csvQueue",
   active |-> c.active,
   queueLength |-> Len(c.queue),
   currentTask |-> IF c.current = NoTask THEN <<>> ELSE <<ts[c.current]>>,
   queue |-> [n \in 1..Len(c.queue) |-> ts[c.queue[n]]]]

\* what a query leaves alone: it assigns no field and awaits nothing
QueryFrame ==
  /\ thrown' = FALSE
  /\ logged' = FALSE
  /\ UNCHANGED <<service, tasks, store, failing, cache, now, runs, stopped, attempted, csvVars>>

\* getStatistics() written so that it zeroes the counters it has reported
GetStatistics_Resetting ==
  /\ reply' = StatisticsOf(service)
  /\ service' = [service EXCEPT !.processedDocuments = 0, !.successCount = 0,
                                !.failedDocuments = 0]
  /\ thrown' = FALSE
  /\ logged' = FALSE
  /\ UNCHANGED <<tasks, store, failing, cache, now, runs, stopped, attempted, csvVars>>

GetStatus ==
  /\ reply' = StatusOf(service)
  /\ QueryFrame

GetStatistics ==
  /\ reply' = StatisticsOf(service)
  /\ QueryFrame

GetLogs(limit, level) ==
  /\ reply' = LogsOf(service, limit, level)
  /\ QueryFrame

GetCsvQueueStatus ==
  /\ reply' = CsvQueueStatusOf(csv, csvTasks)
  /\ QueryFrame

\* ------------------------------------------------------- specifications
\* Spec: the control calls interleaved with the batch loop, documents
\* arriving from the CSV import, and a backend that does not fail
ControlOptions ==
  {o \in ConfigOptions : (o.key = "batchSize" /\ o.value = 1) \/ o.key = "skipExisting"}

Next ==
  \/ \E o \in {NoOptions} \cup ControlOptions : Start(o) /\ runs' <= MaxSpecRuns
  \/ Pause
  \/ Resume
  \/ Stop
  \/ \E o \in ControlOptions : Configure(o)
  \/ \E t \in Waiting("init") : InitReturn(t)
  \/ \E t \in Waiting("init") : InitFail(t)
  \/ \E t \in Waiting("count") : CountReturn(t)
  \/ \E t \in Waiting("stopwait") : StopPoll(t)
  \/ \E t \in Waiting("stopwait") : StopTimeout(t)
  \/ \E t \in Waiting("pausewait") : PauseWake(t)
  \/ \E t \in Waiting("fetch") : FetchReturn(t)
  \/ \E t \in Waiting("embed") : EmbedSuccess(t)
  \/ \E t \in Waiting("delay") : DelayWake(t)
  \/ \E n \in 1..MaxSpecDocs : ProcessRecordBatch(n)
  \/ Tick

Spec == Init /\ [][Next]_vars

\* SpecJob: jobs that run alone (start and configure are the only calls, no
\* document arrives meanwhile), over a backend that fails on at most one
\* document
InitJob ==
  /\ service = NewService
  /\ tasks = EmptyBag
  /\ store \in UNION {[1..n -> {0, EmbeddingDim}] : n \in 0..MaxDocs}
  /\ failing \in {{}} \cup {{d} : d \in 1..MaxDocs}
  /\ now = 0
  /\ thrown = FALSE
  /\ logged = FALSE
  /\ runs = 0
  /\ stopped = FALSE
  /\ attempted = [d \in 1..MaxDocs |-> 0]
  /\ csv = NewCsv
  /\ csvTasks = <<>>
  /\ csvCalls = EmptyBag
  /\ reply = NoReply
  /\ cache = NewCache

NextJob ==
  \/ \E o \in {NoOptions} \cup ConfigOptions : Start(o)
  \/ \E o \in ConfigOptions : Configure(o)
  \/ \E t \in Waiting("init") : InitReturn(t)
  \/ \E t \in Waiting("count") : CountReturn(t)
  \/ \E t \in Waiting("fetch") : FetchReturn(t)
  \/ \E t \in Waiting("embed") : EmbedSuccess(t)
  \/ \E t \in Waiting("embed") : EmbedFailure(t)
  \/ \E t \in Waiting("backoff") : BackoffWake(t)
  \/ \E t \in Waiting("delay") : DelayWake(t)

SpecJob == InitJob /\ [][NextJob]_vars

\* a job that runs alone on a store that can become unreachable, with any set
\* of documents failing, every await of it settling in the end
InitLoop ==
  /\ service = NewService
  /\ tasks = EmptyBag
  /\ store \in UNION {[1..n -> {0, EmbeddingDim}] : n \in 0..MaxDocs}
  /\ failing \in SUBSET (1..MaxDocs)
  /\ now = 0
  /\ thrown = FALSE
  /\ logged = FALSE
  /\ runs = 0
  /\ stopped = FALSE
  /\ attempted = [d \in 1..MaxDocs |-> 0]
  /\ csv = NewCsv
  /\ csvTasks = <<>>
  /\ csvCalls = EmptyBag
  /\ reply = NoReply
  /\ cache = NewCache

\* an await of start() or of the loop settles
LoopStep(t) ==
  \/ InitReturn(t) \/ InitFail(t) \/ CountReturn(t) \/ CountFail(t)
  \/ FetchReturn(t) \/ FetchFail(t)
  \/ EmbedSuccess(t) \/ EmbedFailure(t)
  \/ BackoffWake(t) \/ DelayWake(t)

NextLoop ==
  \/ \E o \in {NoOptions} \cup ConfigOptions : Start(o) /\ runs' <= MaxSpecRuns
  \/ StoreFails
  \/ \E t \in Waiting("init") : InitReturn(t)
  \/ \E t \in Waiting("init") : InitFail(t)
  \/ \E t \in Waiting("count") : CountReturn(t)
  \/ \E t \in Waiting("count") : CountFail(t)
  \/ \E t \in Waiting("fetch") : FetchReturn(t)
  \/ \E t \in Waiting("fetch") : FetchFail(t)
  \/ \E t \in Waiting("embed") : EmbedSuccess(t)
  \/ \E t \in Waiting("embed") : EmbedFailure(t)
  \/ \E t \in Waiting("backoff") : BackoffWake(t)
  \/ \E t \in Waiting("delay") : DelayWake(t)

SpecLoopFair ==
  InitLoop /\ [][NextLoop]_vars /\ WF_vars(\E t \in BagToSet(tasks) : LoopStep(t))

\* a job with a failing document that is paused and given a lower
\* retryAttempts while it runs
NextRetryConfig ==
  \/ Start(NoOptions) /\ runs' <= MaxSpecRuns
  \/ Pause
  \/ \E o \in {c \in ConfigOptions : c.key = "retryAttempts"} : Configure(o)
  \/ \E t \in Waiting("init") : InitReturn(t)
  \/ \E t \in Waiting("count") : CountReturn(t)
  \/ \E t \in Waiting("fetch") : FetchReturn(t)
  \/ \E t \in Waiting("embed") : EmbedSuccess(t)
  \/ \E t \in Waiting("embed") : EmbedFailure(t)
  \/ \E t \in Waiting("backoff") : BackoffWake(t)
  \/ \E t \in Waiting("delay") : DelayWake(t)

SpecRetryConfig == InitJob /\ [][NextRetryConfig]_vars

\* SpecConfig: configure() and start(options) with numeric option values in
\* and out of range, around a run that can be paused
NextConfig ==
  \/ \E o \in NumericOptions : Configure(o)
  \/ \E o \in {NoOptions} \cup NumericOptions : Start(o) /\ runs' <= MaxSpecRuns
  \/ Pause
  \/ \E t \in Waiting("init") : InitReturn(t)
  \/ \E t \in Waiting("count") : CountReturn(t)
  \/ \E t \in Waiting("fetch") : FetchReturn(t)
  \/ \E t \in Waiting("embed") : EmbedSuccess(t)
  \/ \E t \in Waiting("delay") : DelayWake(t)

SpecConfig == Init /\ [][NextConfig]_vars

\* SpecCsv: the CSV queue, with the embedding run that a completed import
\* starts still connecting to the database
NextCsv ==
  \/ \E r \in 1..MaxRows, b \in CsvBatchSizeOptions, c \in ClearExistingOptions :
       AddCsvToQueue(r, b, c, NoOption)
  \/ StartCsvProcessing
  \/ StopCsvProcessing
  \/ ClearCsvQueue
  \/ \E k \in CsvWaiting("delete") : CsvDeleted(k)
  \/ \E k \in CsvWaiting("stream") : CsvData(k)
  \/ \E k \in CsvWaiting("stream") : CsvEnd(k)
  \/ \E k \in CsvWaiting("stream") : CsvStreamError(k)
  \/ \E k \in CsvWaiting("endinsert") : \E r \in AllOrNothing(k.buffered) : CsvEndInsert(k, r)
  \/ \E k \in CsvWaiting("insert") : \E r \in AllOrNothing(k.n) : CsvBatchSettled(k, r)

InitCsv ==
  /\ Init
  /\ store = <<>>

SpecCsv == InitCsv /\ [][NextCsv]_vars


\* SpecQuery: the status, statistics and log queries called at any point of
\* a run that can be paused and of a CSV import
NextQuery ==
  \/ GetStatus
  \/ GetStatistics
  \/ GetLogs(DefaultLogLimit, NoLevel)
  \/ GetCsvQueueStatus
  \/ \E o \in {NoOptions} : Start(o) /\ runs' <= MaxSpecRuns
  \/ Pause
  \/ Resume
  \/ \E t \in Waiting("init") : InitReturn(t)
  \/ \E t \in Waiting("count") : CountReturn(t)
  \/ \E t \in Waiting("fetch") : FetchReturn(t)
  \/ \E t \in Waiting("embed") : EmbedSuccess(t)
  \/ \E t \in Waiting("delay") : DelayWake(t)
  \/ \E t \in Waiting("pausewait") : PauseWake(t)
  \/ \E r \in 1..MaxRows : AddCsvToQueue(r, 1, FALSE, NoOption) /\ csv'.taskId <= MaxQueryCsvTasks
  \/ \E k \in CsvWaiting("stream") : CsvData(k)
  \/ \E k \in CsvWaiting("stream") : CsvEnd(k)
  \/ \E k \in CsvWaiting("insert") : CsvBatchSettled(k, InsertedAll(k.n))

SpecQuery == Init /\ [][NextQuery]_vars

\* SpecCsvFair: SpecCsv where the file stream and the database deliver:
\* every pending deleteMany, stream event and awaited insert of a task that
\* is being processed eventually happens
CsvTaskStep(i) ==
  \E k \in BagToSet(csvCalls) :
    /\ k.task = i
    /\ \/ CsvDeleted(k)
       \/ CsvData(k)
       \/ CsvEnd(k)
       \/ \E r \in AllOrNothing(k.buffered) : CsvEndInsert(k, r)

SpecCsvFair == SpecCsv /\ \A i \in 1..MaxCsvTasks : WF_vars(CsvTaskStep(i))

\* SpecCsvRun: the CSV queue left to run (no stopCsvProcessing(), no
\* clearCsvQueue()), with the stream and the database delivering
NextCsvRun ==
  \/ \E r \in 1..MaxRows, b \in CsvBatchSizeOptions, c \in ClearExistingOptions :
       AddCsvToQueue(r, b, c, NoOption)
  \/ StartCsvProcessing
  \/ \E k \in CsvWaiting("delete") : CsvDeleted(k)
  \/ \E k \in CsvWaiting("stream") : CsvData(k)
  \/ \E k \in CsvWaiting("stream") : CsvEnd(k)
  \/ \E k \in CsvWaiting("stream") : CsvStreamError(k)
  \/ \E k \in CsvWaiting("endinsert") : \E r \in AllOrNothing(k.buffered) : CsvEndInsert(k, r)
  \/ \E k \in CsvWaiting("insert") : \E r \in AllOrNothing(k.n) : CsvBatchSettled(k, r)

SpecCsvRun ==
  InitCsv /\ [][NextCsvRun]_vars /\ \A i \in 1..MaxCsvTasks : WF_vars(CsvTaskStep(i))

\* SpecCsvPartial: CSV imports whose bulk inserts can succeed in part
NextCsvPartial ==
  \/ \E r \in 1..MaxRows, b \in CsvBatchSizeOptions, c \in ClearExistingOptions :
       AddCsvToQueue(r, b, c, NoOption)
  \/ \E k \in CsvWaiting("delete") : CsvDeleted(k)
  \/ \E k \in CsvWaiting("stream") : CsvData(k)
  \/ \E k \in CsvWaiting("stream") : CsvEnd(k)
  \/ \E k \in CsvWaiting("endinsert") : \E r \in InsertOutcomes(k.buffered) : CsvEndInsert(k, r)
  \/ \E k \in CsvWaiting("insert") : \E r \in InsertOutcomes(k.n) : CsvBatchSettled(k, r)

SpecCsvPartial == InitCsv /\ [][NextCsvPartial]_vars

\* SpecRestart: an embedding run and CSV imports, with restarts of the
\* server process
NextRestart ==
  \/ Restart
  \/ \E o \in {NoOptions} : Start(o) /\ runs' <= MaxSpecRuns
  \/ \E t \in Waiting("init") : InitReturn(t)
  \/ \E t \in Waiting("count") : CountReturn(t)
  \/ \E t \in Waiting("fetch") : FetchReturn(t)
  \/ \E t \in Waiting("embed") : EmbedSuccess(t)
  \/ \E t \in Waiting("delay") : DelayWake(t)
  \/ \E r \in 1..MaxRows : AddCsvToQueue(r, 2, FALSE, NoOption)
  \/ \E k \in CsvWaiting("stream") : CsvData(k)
  \/ \E k \in CsvWaiting("stream") : CsvEnd(k)
  \/ \E k \in CsvWaiting("endinsert") : CsvEndInsert(k, InsertedAll(k.buffered))
  \/ \E k \in CsvWaiting("insert") : CsvBatchSettled(k, InsertedAll(k.n))

SpecRestart == Init /\ [][NextRestart]_vars

\* start() whose initialization succeeds, throws or ends the process, and
\* the run that follows a successful one
NextInitFail ==
  \/ \E o \in {NoOptions} \cup ControlOptions : Start(o)
  \/ Stop
  \/ \E t \in Waiting("init") : InitReturn(t)
  \/ \E t \in Waiting("init") : InitFail(t)
  \/ \E t \in Waiting("init") : ConnectFail(t)
  \/ \E t \in Waiting("count") : CountReturn(t)
  \/ \E t \in Waiting("stopwait") : StopPoll(t)
  \/ \E t \in Waiting("fetch") : FetchReturn(t)
  \/ \E t \in Waiting("embed") : EmbedSuccess(t)
  \/ \E t \in Waiting("delay") : DelayWake(t)

SpecInitFail == Init /\ [][NextInitFail]_vars

\* CSV files imported while embedding runs are started by the user and by
\* the import itself
NextCsvStart ==
  \/ \E r \in 1..MaxRows, g \in GenerateEmbeddingsOptions :
       AddCsvToQueue(r, 2, FALSE, g) /\ csv'.taskId <= MaxQueryCsvTasks
  \/ \E k \in CsvWaiting("stream") : CsvData(k)
  \/ \E k \in CsvWaiting("stream") : CsvEnd(k)
  \/ \E k \in CsvWaiting("stream") : CsvStreamError(k)
  \/ \E k \in CsvWaiting("endinsert") : \E r \in AllOrNothing(k.buffered) : CsvEndInsert(k, r)
  \/ \E k \in CsvWaiting("insert") : \E r \in AllOrNothing(k.n) : CsvBatchSettled(k, r)
  \/ Start(NoOptions) /\ runs' <= MaxSpecRuns
  \/ \E t \in Waiting("init") : InitReturn(t)
  \/ \E t \in Waiting("init") : InitFail(t)
  \/ \E t \in Waiting("init") : ConnectFail(t)
  \/ \E t \in Waiting("count") : CountReturn(t)
  \/ \E t \in Waiting("fetch") : FetchReturn(t)
  \/ \E t \in Waiting("embed") : EmbedSuccess(t)
  \/ \E t \in Waiting("delay") : DelayWake(t)

SpecCsvStart == InitCsv /\ [][NextCsvStart]_vars

\* SpecLogs: addLog(), clearLogs() and getLogs() on a ring that is full or
\* nearly full
LogPrefills == (MaxLogEntries - MaxPrefillGap)..MaxLogEntries

InitLogsFilled ==
  /\ \E n \in LogPrefills :
       service = [NewService EXCEPT !.logs = FilledRing(n), !.logCount = n]
  /\ tasks = EmptyBag
  /\ store = <<>>
  /\ failing = {}
  /\ now = 0
  /\ thrown = FALSE
  /\ logged = FALSE
  /\ runs = 0
  /\ stopped = FALSE
  /\ attempted = [d \in 1..MaxDocs |-> 0]
  /\ csv = NewCsv
  /\ csvTasks = <<>>
  /\ csvCalls = EmptyBag
  /\ reply = NoReply
  /\ cache = NewCache

NextLogs ==
  \/ \E level \in LogLevels : AddLogCall(level)
  \/ ClearLogs
  \/ \E limit \in LogLimits, level \in {NoLevel, "warning"} : GetLogs(limit, level)

SpecLogs == InitLogsFilled /\ [][NextLogs]_vars

\* SpecSearch: a search over a collection in which some documents have an
\* embedding; the call (query, filters, topK) is in flight at the start
InitSearch ==
  /\ service = NewService
  /\ tasks = EmptyBag
  /\ store \in UNION {[1..n -> {0, EmbeddingDim}] : n \in 0..MaxSearchDocs}
  /\ failing = {}
  /\ now = 0
  /\ thrown = FALSE
  /\ logged = FALSE
  /\ runs = 0
  /\ stopped = FALSE
  /\ attempted = [d \in 1..MaxDocs |-> 0]
  /\ csv = NewCsv
  /\ csvTasks = <<>>
  /\ csvCalls = EmptyBag
  /\ \E topK \in 0..MaxTopK, sim \in [1..Len(store) -> Similarities],
        match \in SUBSET (1..Len(store)) :
       reply = [kind |-> "searching", query |-> sim, filters |-> match, topK |-> topK]
  /\ cache = NewCache

NextSearch ==
  /\ reply.kind = "searching"
  /\ \E indexOk \in BOOLEAN, findOk \in BOOLEAN :
       \E nearest \in Nearest(reply.topK, reply.query) :
         SemanticSearch(reply.topK, reply.query, reply.filters, nearest, indexOk, findOk)

SpecSearch == InitSearch /\ [][NextSearch]_vars

\* SpecCache: generateEmbedding() calls, also concurrent ones, on a cache
\* that is full or nearly full
InitCache ==
  /\ service = NewService
  /\ tasks = EmptyBag
  /\ store = <<>>
  /\ failing = {}
  /\ now = 0
  /\ thrown = FALSE
  /\ logged = FALSE
  /\ runs = 0
  /\ stopped = FALSE
  /\ attempted = [d \in 1..MaxDocs |-> 0]
  /\ csv = NewCsv
  /\ csvTasks = <<>>
  /\ csvCalls = EmptyBag
  /\ reply = NoReply
  /\ \E n \in (CACHE_SIZE_LIMIT - MaxCacheGap)..CACHE_SIZE_LIMIT :
       cache = [NewCache EXCEPT !.keys = FilledCache(n)]

NextCache ==
  \/ \E text \in Texts : GenerateEmbedding(text)
  \/ \E key \in BagToSet(cache.calls) : EmbeddingComputed(key)
  \/ \E key \in BagToSet(cache.calls) : EmbeddingFailed(key)

SpecCache == InitCache /\ [][NextCache]_vars

\* ------------------------------------------------------------ the claims
LoopPcs == {"pausewait", "fetch", "embed", "backoff", "delay"}

\* the processEmbeddings() loops in flight
Loops == {t \in BagToSet(tasks) : t.pc \in LoopPcs}

NumLoops == BagCardinality([t \in Loops |-> tasks[t]])

\* a start() has been accepted and every async call has returned
JobDone == runs >= 1 /\ tasks = EmptyBag

Embedded(d) == store[d] > 0

\* C1: at every moment at most one processEmbeddings() loop is executing and
\* at most one batch is active, whatever start/pause/resume/stop calls came.
C1_SingleLoop == NumLoops <= 1 /\ service.activeWorkers <= 1

\* C2: whenever no batch is in flight (each point after a batch completed),
\* processedDocuments = successCount + failedDocuments, also for runs that
\* were paused and reconfigured.
C2_CountersAgree ==
  service.activeWorkers = 0 =>
    service.processedDocuments = service.successCount + service.failedDocuments

\* C3: while skipExisting is true (when the loop took its filter and when it
\* writes) no update writes an embedding onto a document whose stored
\* embedding is already non-empty.
C3_NeverOverwrites ==
  [][\A t \in Waiting("embed") :
       (EmbedSuccess(t) /\ service.skipExisting /\ ~t.filterAll)
         => ~Embedded(t.docs[t.idx].id)]_vars

\* C4: a job that runs alone with skipExisting true over a backend that never
\* fails ends with every document embedded and with
\* processedDocuments = successCount = the snapshot, failedDocuments = 0.
C4_RunEmbedsAll ==
  (JobDone /\ failing = {} /\ service.skipExisting) =>
    /\ \A d \in 1..Len(store) : Embedded(d)
    /\ service.processedDocuments = service.totalDocuments
    /\ service.successCount = service.totalDocuments
    /\ service.failedDocuments = 0

\* C5: within one run no document enters the per-document retry procedure
\* twice.
C5_AttemptedOnce == \A d \in 1..MaxDocs : attempted[d] <= 1

\* C6: processedDocuments never exceeds the totalDocuments snapshot.
C6_ProcessedWithinTotal == service.processedDocuments <= service.totalDocuments

\* C7: a control call made in a state where it is illegal throws, writes no
\* log entry and leaves the service (flags, counters, timers), the calls in
\* flight, the store and the clock as they were.
RunState == <<service, tasks, store, failing, now, runs, attempted>>

C7_IllegalCallsRejected ==
  [][/\ ((\E o \in {NoOptions} \cup ConfigOptions : Start(o)) /\ service.isRunning)
          => (thrown' /\ ~logged' /\ UNCHANGED RunState)
     /\ (Pause /\ (~service.isRunning \/ service.isPaused))
          => (thrown' /\ ~logged' /\ UNCHANGED RunState)
     /\ (Resume /\ ~service.isPaused)
          => (thrown' /\ ~logged' /\ UNCHANGED RunState)
     /\ (Stop /\ ~service.isRunning)
          => (thrown' /\ ~logged' /\ UNCHANGED RunState)]_vars

\* a rejected call in the middle of a paused run
C7_Witness ==
  thrown /\ service.isRunning /\ service.isPaused /\ service.processedDocuments > 0

\* C8: an accepted resume() adds the elapsed pause to totalPauseDuration and
\* starts no fresh loop: the loops in flight afterwards are the ones that were
\* in flight before, each with the skip offset it had reached.
C8_ResumeContinues ==
  [][(Resume /\ service.isRunning /\ service.isPaused /\ NumLoops >= 1) =>
       /\ service'.totalPauseDuration =
            service.totalPauseDuration + (now - service.pauseTime)
       /\ service'.processedDocuments = service.processedDocuments
       /\ tasks' = tasks]_vars

\* C9: the second of two jobs run in a row with skipExisting true over a
\* backend that never fails takes a snapshot of 0 and ends at once:
\* processedDocuments 0, isRunning false, no batch fetched.
C9_SecondRunEmpty ==
  [][\A t \in Waiting("count") :
       (CountReturn(t) /\ runs = 2 /\ failing = {} /\ service.skipExisting) =>
         /\ service'.totalDocuments = 0
         /\ service'.processedDocuments = 0
         /\ ~service'.isRunning
         /\ tasks' = EmptyBag]_vars

\* C10: a document whose every attempt fails is never written, is counted
\* once in failedDocuments and once in processedDocuments at the moment its
\* attempts are exhausted, and the run goes on (the loop stays in flight, the
\* flags stay as they were); a finished job has counted each failing document
\* it took up exactly once, and with 3 documents of which #2 always fails, at
\* the batch size of the constructor, it ends with failedDocuments 1,
\* successCount 2, processedDocuments 3.
C10_Exhausted(t) == EmbedFailure(t) /\ t.attempts + 1 > service.retryAttempts

C11_ThreeLogEntries ==
  (JobDone /\ runs = 1 /\ service.retryAttempts = 2) =>
    \A d \in failing : attempted[d] = 1 => service.docLogs[d] = 3

\* C12: configure(options) throws and changes nothing whenever a run is active
\* and not paused; when the runner is idle or paused it is accepted and the
\* option it names has the value passed.
C12_OptionApplied(o) ==
  CASE o.key = "batchSize" -> service'.batchSize = o.value
    [] o.key = "retryAttempts" -> service'.retryAttempts = o.value
    [] o.key = "skipExisting" -> service'.skipExisting = (o.value = 1)

C12_ConfigureGuarded ==
  [][\A o \in ConfigOptions : Configure(o) =>
       IF service.isRunning /\ ~service.isPaused
       THEN thrown' /\ ~logged' /\ UNCHANGED RunState
       ELSE ~thrown' /\ C12_OptionApplied(o)]_vars

\* a run whose loop took its filter under skipExisting = true was paused and
\* reconfigured to skipExisting = false
C12_Witness ==
  /\ service.isRunning /\ service.isPaused /\ ~service.skipExisting
  /\ \E t \in Loops : ~t.filterAll

\* C13: in every reachable state batchSize is in 1..1000, delayBetweenBatches
\* is >= 0, retryAttempts is in 0..10 and concurrentWorkers is in 1..5, and an
\* accepted configure() with an integer value leaves the option at the value
\* clamped to the nearest bound (batchSize 5000 becomes 1000, retryAttempts -1
\* becomes 0).
C13_Clamp(lo, hi, v) == IF v < lo THEN lo ELSE IF v > hi THEN hi ELSE v

C13_Expected(o) ==
  CASE o.key = "batchSize" -> service'.batchSize = C13_Clamp(1, 1000, o.value)
    [] o.key = "delayBetweenBatches" ->
         service'.delayBetweenBatches = (IF o.value < 0 THEN 0 ELSE o.value)
    [] o.key = "retryAttempts" -> service'.retryAttempts = C13_Clamp(0, 10, o.value)
    [] o.key = "concurrentWorkers" ->
         service'.concurrentWorkers = C13_Clamp(1, 5, o.value)

C13_InRange ==
  /\ service.batchSize \in 1..1000
  /\ service.delayBetweenBatches >= 0
  /\ service.retryAttempts \in 0..10
  /\ service.concurrentWorkers \in 1..5

C13_ConfigurationClamped ==
  /\ []C13_InRange
  /\ [][\A o \in NumericOptions :
         (Configure(o) /\ ~ConfigureGuard(service)) => C13_Expected(o)]_vars
  /\ [][(Configure([key |-> "batchSize", value |-> 5000]) /\ ~thrown')
          => service'.batchSize = 1000]_vars
  /\ [][(Configure([key |-> "retryAttempts", value |-> -1]) /\ ~thrown')
          => service'.retryAttempts = 0]_vars

\* a paused run holding values that only clamping produces (1000 from 5000,
\* 0 from -1, 5 from 6)
C13_Witness ==
  /\ service.isRunning /\ service.isPaused
  /\ service.batchSize = 1000 /\ service.retryAttempts = 0
  /\ service.delayBetweenBatches = 0 /\ service.concurrentWorkers = 5

\* C14: an accepted stop() sets isStopping; when it returns (at once when no
\* batch is active, else after its wait) isRunning, isPaused and isStopping
\* are all false; and once it has returned no document's embedding is written
\* and no counter changes until the next accepted start().
C14_Returned == ~service'.isRunning /\ ~service'.isPaused /\ ~service'.isStopping

C14_StopIsFinal ==
  /\ [][(Stop /\ service.isRunning) =>
          IF service.activeWorkers > 0
          THEN service'.isStopping /\ service'.isRunning
          ELSE C14_Returned]_vars
  /\ [][\A t \in Waiting("stopwait") :
          (StopPoll(t) \/ StopTimeout(t)) => C14_Returned]_vars
  /\ [][(stopped /\ stopped') =>
          /\ \A d \in 1..Len(store) : store'[d] = store[d]
          /\ service'.processedDocuments = service.processedDocuments
          /\ service'.successCount = service.successCount
          /\ service'.failedDocuments = service.failedDocuments]_vars

\* the startCsvProcessing() loops in flight (each awaits its processCsvFile)
CsvLoops == {k \in BagToSet(csvCalls) : k.pc \in {"delete", "stream", "endinsert"}}

NumCsvLoops == BagCardinality([k \in CsvLoops |-> csvCalls[k]])

CsvInStatus(status) == {i \in 1..Len(csvTasks) : csvTasks[i].status = status}

Queued == {csv.queue[n] : n \in 1..Len(csv.queue)}

\* C16: at no moment are two CSV tasks in the processing state or two queue
\* loops in flight, and the task a loop takes up is the oldest of the pending
\* queue.
C16_OneTaskAtATime ==
  /\ [](Cardinality(CsvInStatus("processing")) <= 1 /\ NumCsvLoops <= 1)
  /\ [][\A i \in Queued :
          csvTasks'[i].status = "processing" =>
            \A j \in Queued : csvTasks[i].id <= csvTasks[j].id]_vars

\* C15: getStatus(), getStatistics(), getLogs() and getCsvQueueStatus() change
\* nothing: a step that returns one of their replies leaves every flag,
\* counter, timer, configuration value and log entry of the service, every
\* async call in flight, the collection, and the CSV queue and its tasks as
\* they were, and writes no log entry, in any state including mid-batch
C15_QueriesDoNotMutate ==
  [][reply' # NoReply =>
       /\ UNCHANGED <<service, tasks, store, now, runs, stopped, attempted,
                      csv, csvTasks, csvCalls>>
       /\ ~logged']_vars

\* a status reported in the middle of a batch, while a CSV file is streaming
C15_Witness ==
  /\ reply.kind = "status"
  /\ reply.isRunning /\ reply.activeWorkers = 1
  /\ Waiting("embed") # {}
  /\ CsvWaiting("stream") # {}

\* C17: a step of addCsvToQueue() issues an id greater than every id issued
\* before (also after clearCsvQueue()), creates the task as queued at the
\* tail of the pending queue, where it stays queued unless the loop started
\* by the call takes it at once, and starts a processing loop if and only
\* if no processing loop is active
C17_Enqueued == Len(csvTasks') = Len(csvTasks) + 1

C17_Enqueue ==
  [][C17_Enqueued =>
       LET i == Len(csvTasks')
           pending == IF NumCsvLoops' > NumCsvLoops
                      THEN <<csv'.current>> \o csv'.queue ELSE csv'.queue
       IN /\ \A j \in 1..Len(csvTasks) : csvTasks[j].id < csvTasks'[i].id
          /\ \A j \in 1..Len(csvTasks) : csvTasks'[j] = csvTasks[j]
               \/ j = Head(csv.queue)
          /\ pending = Append(csv.queue, i)
          /\ i \in Queued' => csvTasks'[i].status = "queued"
          /\ NumCsvLoops' > NumCsvLoops <=> NumCsvLoops = 0]_vars

\* C18: the status of a CSV task only moves queued -> processing ->
\* completed or failed, and no field of a task that is completed or failed
\* changes again, also when bulk inserts issued while the file was streaming
\* settle late
C18_TaskLifecycle ==
  [][\A i \in 1..Len(csvTasks) :
       LET old == csvTasks[i]
           new == csvTasks'[i]
       IN /\ new.status # old.status =>
               \/ old.status = "queued" /\ new.status = "processing"
               \/ old.status = "processing" /\ new.status \in {"completed", "failed"}
          /\ old.status \in {"completed", "failed"} => new = old]_vars

\* C19: a step of clearCsvQueue() empties the pending queue and leaves the
\* task being processed alone: its task object and its calls in flight are
\* unchanged, and getCsvQueueStatus() reports the same current task after
\* the step as before it
C19_ClearKeepsCurrent ==
  [][ClearCsvQueue =>
       /\ csv'.queue = <<>>
       /\ csvTasks' = csvTasks
       /\ csvCalls' = csvCalls
       /\ CsvQueueStatusOf(csv', csvTasks').currentTask
            = CsvQueueStatusOf(csv, csvTasks).currentTask]_vars

\* C20: a step of stopCsvProcessing() clears csvProcessingActive and leaves
\* the pending queue, the tasks and the calls in flight as they were; the
\* flag is set again only by a step that starts a loop; a pending task is
\* taken up only in a step that ends with the flag set; and every task that
\* is being processed reaches completed or failed
C20_TakenUp(i) == csvTasks[i].status = "queued" /\ csvTasks'[i].status = "processing"

C20_Finished(i) == i <= Len(csvTasks) /\ csvTasks[i].status \in {"completed", "failed"}

C20_StopBetweenTasks ==
  /\ [][StopCsvProcessing =>
          /\ ~csv'.active
          /\ csv'.queue = csv.queue
          /\ csvTasks' = csvTasks
          /\ csvCalls' = csvCalls]_vars
  /\ [][(~csv.active /\ csv'.active) => NumCsvLoops' > NumCsvLoops]_vars
  /\ [][\A i \in 1..Len(csvTasks) : C20_TakenUp(i) => csv'.active]_vars
  /\ \A i \in 1..MaxCsvTasks :
       (i <= Len(csvTasks) /\ csvTasks[i].status = "processing") ~> C20_Finished(i)

\* the queue was stopped during the first task: the task has completed, the
\* loop has ended and the second task is still pending
C20_Witness ==
  /\ ~csv.active
  /\ NumCsvLoops = 0
  /\ Len(csvTasks) = 2
  /\ csvTasks[1].status = "completed"
  /\ csvTasks[2].status = "queued"
  /\ csv.queue = <<2>>

\* C21: while the queue is neither stopped nor cleared, every task that was
\* enqueued reaches completed or failed, also behind a task that failed, and
\* when every task has finished getCsvQueueStatus() reports active = false
\* and currentTask = null
C21_Drained == \A i \in 1..Len(csvTasks) : C20_Finished(i)

C22_CountsReconciled ==
  \A i \in CsvInStatus("completed") :
    /\ csvTasks[i].insertedRecords = csvTasks[i].added
    /\ csvTasks[i].insertedRecords + csvTasks[i].failedRecords = csvTasks[i].rows

\* C23: a restart of the server process keeps the background processing:
\* the pending CSV tasks are still in the queue after it, and a run that was
\* in progress is still running with its counters
C23_PersistentAcrossRestart ==
  [][Restart =>
       /\ Len(csv'.queue) = Len(csv.queue)
       /\ \A n \in 1..Len(csv.queue) :
            /\ csv'.queue[n] <= Len(csvTasks')
            /\ csvTasks'[csv'.queue[n]] = csvTasks[csv.queue[n]]
       /\ service.isRunning =>
            /\ service'.isRunning
            /\ service'.totalDocuments = service.totalDocuments
            /\ service'.processedDocuments = service.processedDocuments]_vars

\* C24: the log ring never holds more than 1000 entries; its entries are the
\* most recent addLog() calls in the order they were made; and an addLog()
\* appends its entry and, above 1000 entries, drops exactly the oldest ones
C24_MostRecent(logs, count) ==
  \A j \in 1..Len(logs) : logs[j].n = count - Len(logs) + j

C24_LogRingBounded ==
  /\ [](/\ Len(service.logs) <= MaxLogEntries
        /\ C24_MostRecent(service.logs, service.logCount))
  /\ [][\A level \in LogLevels :
          AddLogCall(level) =>
            LET all == Append(service.logs,
                              NewLogEntry(service.logCount + 1, level, service))
                keep == Min(Len(all), MaxLogEntries)
            IN service'.logs = SubSeq(all, Len(all) - keep + 1, Len(all))]_vars

\* two entries have been evicted from a full ring
C24_Witness ==
  /\ Len(service.logs) = MaxLogEntries
  /\ service.logCount = MaxLogEntries + 2
  /\ service.logs[1].n = 3
  /\ logged

\* C25: getLogs(limit, level) returns, for every limit >= 0, at most limit
\* entries: the most recent entries (of the level, when one is given), most
\* recent first
C25_Filtered(level) ==
  IF level = NoLevel THEN service.logs
  ELSE SelectSeq(service.logs, LAMBDA e : e.level = level)

C25_GetLogsMostRecentFirst ==
  [][\A limit \in LogLimits, level \in {NoLevel, "warning"} :
       GetLogs(limit, level) =>
         LET f == C25_Filtered(level)
             k == Min(limit, Len(f))
         IN /\ Len(reply'.entries) <= limit
            /\ reply'.entries = [n \in 1..k |-> f[Len(f) + 1 - n]]]_vars

C27_Stored(base, after) ==
  \/ after = base
  \/ /\ Len(after) = Len(base) + 1
     /\ SubSeq(after, 1, Len(base)) = base
     /\ BagIn(after[Len(after)], cache.calls)

C27_CacheBounded ==
  /\ [](/\ Len(cache.keys) <= CACHE_SIZE_LIMIT
        /\ \A n \in 1..Len(cache.keys) : CacheKey(cache.keys[n]) = cache.keys[n]
        /\ \A m, n \in 1..Len(cache.keys) : m # n => cache.keys[m] # cache.keys[n])
  /\ [][\A text \in Texts :
          (GenerateEmbedding(text) /\ CacheHas(cache.keys, CacheKey(text)))
            => cache'.keys = cache.keys]_vars
  /\ [][cache'.keys # cache.keys =>
          \/ C27_Stored(cache.keys, cache'.keys)
          \/ /\ Len(cache.keys) = CACHE_SIZE_LIMIT
             /\ C27_Stored(Tail(cache.keys), cache'.keys)]_vars

\* two calls missed on the same key of a full cache: the first stored it in
\* place of the oldest entry, the second removed the next oldest
C27_Witness ==
  /\ cache.sets = 2
  /\ cache.calls = EmptyBag
  /\ Len(cache.keys) = CACHE_SIZE_LIMIT - 1
  /\ cache.keys[1] = FilledCache(3)[3]
  /\ cache.keys[Len(cache.keys)] = <<"a", "b">>

NumAt(b, pcs) == BagCardinality([t \in {u \in BagToSet(b) : u.pc \in pcs} |-> CopiesIn(t, b)])

\* the pcs of a call that has issued the find of a batch and not finished it
InBatch == {"fetch", "embed", "backoff"}

\* C29: pause() only prevents new work from starting.  While isPaused stays
\* set over a step (no resume(), stop() or start() takes effect in it) no find
\* is issued, no call enters a batch, and documents are counted only by a call
\* that was inside a batch already; a paused batch that ends has counted every
\* document that was left in it; an accepted stop() of a paused run issues no
\* find and ends the run at once when no batch is active, and as long as the
\* run is paused and stopping, or stopped, no find is issued.
C29_PauseOnlyPreventsNewWork ==
  [][/\ service.isPaused /\ service'.isPaused
        => /\ NumAt(tasks', {"fetch"}) <= NumAt(tasks, {"fetch"})
           /\ NumAt(tasks', InBatch) <= NumAt(tasks, InBatch)
           /\ service'.processedDocuments # service.processedDocuments
                => NumAt(tasks, InBatch) > 0
     /\ \A t \in Waiting("embed") :
          /\ service.isPaused /\ ~service.isStopping
          /\ EmbedSuccess(t)
          /\ NumAt(tasks', InBatch) < NumAt(tasks, InBatch)
          => service'.processedDocuments
               = service.processedDocuments + (Len(t.docs) - t.idx + 1)
     /\ service.isPaused /\ ~StopGuard(service) /\ Stop
        => /\ NumAt(tasks', {"fetch"}) <= NumAt(tasks, {"fetch"})
           /\ service'.isStopping \/ ~service'.isRunning
           /\ service.activeWorkers <= 0 => ~service'.isRunning /\ stopped'
     /\ (service.isPaused /\ service.isStopping) \/ (stopped /\ ~service.isRunning)
        => NumAt(tasks', {"fetch"}) <= NumAt(tasks, {"fetch"})
    ]_vars

\* paused between two batches: the batch that was in flight is finished, the
\* loop waits in "Handle pause" and documents are left
C29_Witness ==
  /\ service.isPaused /\ service.isRunning /\ ~service.isStopping
  /\ Waiting("pausewait") # {}
  /\ NumAt(tasks, InBatch) = 0
  /\ service.processedDocuments > 0
  /\ service.processedDocuments < service.totalDocuments

\* C30: when the initialization of start() fails (the store cannot be reached
\* or the embedding model cannot be loaded) the error is thrown to the caller
\* and logged, no document is processed, isRunning is false afterwards and a
\* later start() is accepted
C30_InitFailureAborts ==
  [][\A t \in Waiting("init") :
       InitFail(t) \/ ConnectFail(t)
       => /\ thrown' /\ logged'
          /\ store' = store
          /\ service'.processedDocuments = service.processedDocuments
          /\ ~service'.isRunning
          /\ ~StartGuard(service')]_vars

\* C31: the batch loop always terminates: a run that was started (and is never
\* paused) is eventually not running any more, whichever documents keep
\* failing and also when Document.find() of a batch throws
C31_LoopTerminates == service.isRunning ~> ~service.isRunning

\* C32: when the aggregation with $vectorSearch fails, the search answers
\* with the result of the exact cosine-similarity fallback, and an error
\* reaches the caller only when the fallback fails as well
C32_FallbackOnSearchFailure ==
  /\ reply.kind = "search" /\ reply.fallback
       => reply.results = SemanticSearchFallback(reply.topK, reply.query, reply.filters)
  /\ reply.kind = "searcherror"
       => thrown /\ reply.error = "semanticSearchFallback"

\* the index is missing and the fallback has answered with the two best of
\* three documents
C32_Witness ==
  /\ reply.kind = "search"
  /\ reply.fallback
  /\ reply.topK = 2
  /\ Len(store) = 3
  /\ Len(reply.results) = 2
  /\ reply.results[1].similarity = 90 /\ reply.results[2].similarity = 50

\* C33: when a CSV task becomes completed, start() is called in that step if
\* and only if the task asked for embeddings and no run was active; and when
\* the initialization of a start() fails after a task completed, the failure
\* is logged and every completed task is still there and completed
C33_StartAfterCsv ==
  [][/\ \A i \in 1..Len(csvTasks) :
          (/\ i <= Len(csvTasks')
           /\ csvTasks[i].status # "completed"
           /\ csvTasks'[i].status = "completed")
          => ((runs' = runs + 1 /\ Waiting("init") = {} /\ service'.isRunning
                 /\ \E t \in BagToSet(tasks') : t.pc = "init")
              <=> (csvTasks[i].generateEmbeddings /\ ~service.isRunning))
     /\ \A t \in Waiting("init") :
          /\ InitFail(t) \/ ConnectFail(t)
          /\ \E i \in 1..Len(csvTasks) : csvTasks[i].status = "completed"
          => /\ logged'
             /\ \A i \in 1..Len(csvTasks) :
                  csvTasks[i].status = "completed"
                  => i <= Len(csvTasks') /\ csvTasks'[i].status = "completed"]_vars

\* C34: in every reachable state isPaused implies isRunning and isStopping
\* implies isRunning
C34_FlagsImplyRunning ==
  /\ service.isPaused => service.isRunning
  /\ service.isStopping => service.isRunning

\* C35: in a run that is not being stopped, the step in which the
\* per-document procedure leaves a document (the document is no longer the
\* one being embedded or retried) counts that document once, as a success or
\* as a failure, in processedDocuments; also when configure() lowered
\* retryAttempts while the run was paused during the document's backoff
C35_EveryDocumentCounted ==
  [][\A t \in Waiting("embed") \cup Waiting("backoff") :
       /\ EmbedSuccess(t) \/ EmbedFailure(t) \/ BackoffWake(t)
       /\ ~service.isStopping
       /\ ~\E u \in BagToSet(tasks') :
             u.pc \in {"embed", "backoff"} /\ u.docs = t.docs /\ u.idx = t.idx
       => /\ service'.successCount + service'.failedDocuments
               = service.successCount + service.failedDocuments + 1
          /\ service'.processedDocuments >= service.processedDocuments + 1]_vars

\* C36: whenever some CSV task is in status processing, getCsvQueueStatus()
\* reports active = true and that task as currentTask
C36_StatusMatchesProcessing ==
  \A i \in 1..Len(csvTasks) :
    csvTasks[i].status = "processing"
    => LET status == CsvQueueStatusOf(csv, csvTasks)
       IN status.active /\ status.currentTask = <<csvTasks[i]>>

\* C37: onCompleteCallback is called at most once per accepted start(), and
\* never in a run that stop() has ended
C37_CompleteOncePerRun ==
  /\ [](service.completes <= runs)
  /\ [][service'.completes = service.completes + 1 => ~stopped]_vars

====
